---- MODULE Spec2Model ----
(***************************************************************************)
(* State-machine model of babyagi-2o.                                      *)
(*   main.py    : tool registry, tool synthesis, dispatcher, serializer    *)
(*                and the agent loop run_main_loop.                        *)
(*   sandbox.py : the sandbox run (main + setup_babyagi_workspace).        *)
(*                                                                         *)
(* Python strings are sequences of tokens (a token is one character or one *)
(* interpolated fragment).  "raises" always means an exception derived     *)
(* from Exception, the class every handler in the source is written for.   *)
(***************************************************************************)
EXTENDS Integers, Sequences, FiniteSets, TLC

\* ------------------------------------------------------------------ bounds
\* number of completion requests that return a message in one run
MaxTurns == 1
\* number of tool calls the model issues in one run
MaxCalls == 2
\* number of registry operations in a run of the registry on its own
MaxOps == 3
\* length of the short strings handed to serialize_tool_result on its own
MaxLen == 3

\* ------------------------------------------------------- program constants
max_iterations == 50
MAX_TOOL_OUTPUT_LENGTH == 5000

WARNING == "\\033[93m"
ENDC == "\\033[0m"

VARIABLES
    tools,                \* main.py global: list of tool descriptors
    available_functions,  \* main.py global: name -> implementation
    globals,              \* main.py module namespace, as far as exec() binds it
    messages,             \* run_main_loop: the transcript
    iteration,            \* run_main_loop: loop index
    output_buffer,        \* run_main_loop: the log, as entry-kind counts
    pc,                   \* run_main_loop: position
    response_message,     \* run_main_loop: message of the current turn
    k,                    \* run_main_loop: position in the turn's tool calls
    requests,             \* number of completion() calls issued so far
    request_messages,     \* `messages` argument of the latest completion()
    request_tools,        \* `tools` argument of the latest completion()
    dispatched,           \* ids of the tool calls handed to call_tool
    tool_outcome,         \* what the latest call_tool met: absent/returned/raised
    returned,             \* the return value of run_main_loop, once set
    last_call,            \* registry operations run on their own: the latest one
    latest_reg,           \* per name, the latest register_tool call made for it
    ser_in,               \* serialize_tool_result: its arguments
    ser_out,              \* serialize_tool_result: its outcome
    sb_pc,                \* sandbox.py: position of the sandbox run
    sb_step,              \* sandbox.py: position inside the current helper
    uuid_bound,           \* sandbox.py: does the name `uuid` resolve at line 223
    lifecycle,            \* the remote workspace: NONE / CREATED / REMOVED
    remove_attempts,      \* number of daytona_client.remove(workspace) calls
    sb_result,            \* what setup_babyagi_workspace returned
    sb_error,             \* the failure the latest handler reported
    environ,              \* os.environ: the required settings that are set
    program               \* the script that is run: "main.py" or "sandbox.py"

registry == <<tools, available_functions, globals>>
loopvars == <<messages, iteration, output_buffer, pc, response_message, k, requests,
              request_messages, request_tools, dispatched, tool_outcome, returned>>
regvars == <<last_call, latest_reg>>
servars == <<ser_in, ser_out>>
sbvars == <<sb_pc, sb_step, uuid_bound, lifecycle, remove_attempts, sb_result, sb_error>>
envvars == <<environ, program>>
vars == <<registry, loopvars, regvars, servars, sbvars, envvars>>

\* ------------------------------------------------------------ Python values
\* A Python value as far as json.dumps / str distinguish it:
\*   "str"  a string with tokens s            json.dumps -> quoted
\*   "none" None                              json.dumps -> null
\*   "obj"  an object json cannot encode      json.dumps raises TypeError
\*   "cyc"  a container holding itself        json.dumps raises ValueError
PyStr(s) == [kind |-> "str", s |-> s]
PyNone == [kind |-> "none", s |-> <<>>]
PyObj == [kind |-> "obj", s |-> <<"<", "o", ">">>]
PyCyc == [kind |-> "cyc", s |-> <<"[", "[...]", "]">>]

\* json.dumps(v): the encoding, or the exception class it raises
json_dumps(v) ==
    CASE v.kind = "str" -> [raised |-> "", out |-> <<"\"">> \o v.s \o <<"\"">>]
      [] v.kind = "none" -> [raised |-> "", out |-> <<"null">>]
      [] v.kind = "obj" -> [raised |-> "TypeError", out |-> <<>>]
      [] v.kind = "cyc" -> [raised |-> "ValueError", out |-> <<>>]

\* str(v)
str(v) == IF v.kind = "none" THEN <<"None">> ELSE v.s

\* the f-string appended by serialize_tool_result on truncation
TruncationNote(max_length, total) ==
    <<"\n\n", WARNING, "(Note: Result was truncated to ", ToString(max_length),
      " characters out of ", ToString(total), " total characters.)", ENDC>>

\* serialize_tool_result(tool_result, max_length): only TypeError is caught
serialize_tool_result(tool_result, max_length) ==
    LET d == json_dumps(tool_result)
        serialized_result == IF d.raised = "TypeError" THEN str(tool_result) ELSE d.out
    IN IF d.raised \notin {"", "TypeError"}
       THEN [raised |-> d.raised, out |-> <<>>]
       ELSE IF Len(serialized_result) > max_length
            THEN [raised |-> "",
                  out |-> SubSeq(serialized_result, 1, max_length)
                          \o TruncationNote(max_length, Len(serialized_result))]
            ELSE [raised |-> "", out |-> serialized_result]

\* ------------------------------------------------------------ tool registry
\* Names a model response or a registration can use: the three tools
\* registered at import, "t1" (bound by the texts c1 and c2), "t2" (bound by
\* no text) and "ghost" (never registered).
BuiltinNames == {"create_or_update_tool", "install_package", "task_completed"}

\* `parameters` argument: a mapping (its key set) or a value with no .keys()
Mapping(keys) == [is_mapping |-> TRUE, keys |-> keys]
NotAMapping == [is_mapping |-> FALSE, keys |-> {}]

\* the descriptor appended by register_tool (lines 32-43)
Descriptor(name, description, parameters) ==
    [type |-> "function", name |-> name, description |-> description,
     properties |-> parameters.keys, required |-> parameters.keys]

\* available_functions[name] = func
DictSet(d, key, val) == [n \in (DOMAIN d) \cup {key} |-> IF n = key THEN val ELSE d[n]]

\* a slip: register_tool without the filter of line 30, so that a second
\* registration leaves the first descriptor in the list
register_tool_append(reg, name, func, description, parameters) ==
    LET bound == DictSet(reg.available_functions, name, func)
    IN IF parameters.is_mapping
       THEN [tools |-> Append(reg.tools, Descriptor(name, description, parameters)),
             available_functions |-> bound, raised |-> ""]
       ELSE [tools |-> reg.tools, available_functions |-> bound,
             raised |-> "AttributeError"]

\* register_tool(name, func, description, parameters) applied to a registry
\* reg = [tools, available_functions].  The statements run in source order:
\* the old descriptor is filtered out and the implementation is bound before
\* the new descriptor is built, and building it evaluates parameters.keys(),
\* which raises AttributeError when `parameters` is not a mapping.
register_tool(reg, name, func, description, parameters) ==
    LET filtered == SelectSeq(reg.tools, LAMBDA tool : tool.name # name)
        bound == DictSet(reg.available_functions, name, func)
    IN IF parameters.is_mapping
       THEN [tools |-> Append(filtered, Descriptor(name, description, parameters)),
             available_functions |-> bound, raised |-> ""]
       ELSE [tools |-> filtered, available_functions |-> bound,
             raised |-> "AttributeError"]

\* Source text handed to exec(): whether it compiles and runs, and the symbol
\* it binds in the module namespace (to an implementation named after the text).
Code(id, ok, sym) == [id |-> id, ok |-> ok, sym |-> sym]
c1 == Code("c1", TRUE, "t1")
c2 == Code("c2", TRUE, "t1")
cBad == Code("cBad", FALSE, "t1")
cOther == Code("cOther", TRUE, "helper")

\* create_or_update_tool(name, code, description, parameters) applied to
\* st = [tools, available_functions, globals]; returns the new state and the
\* string returned to the caller.  Every Exception ends in the except branch.
create_or_update_tool(st, name, code, description, parameters) ==
    LET g1 == DictSet(st.globals, code.sym, code.id)
        r == register_tool([tools |-> st.tools,
                            available_functions |-> st.available_functions],
                           name, g1[name], description, parameters)
        ErrorStr(e) == PyStr(<<"Error creating/updating tool '", name, "': ", e>>)
    IN IF ~code.ok
       THEN [tools |-> st.tools, available_functions |-> st.available_functions,
             globals |-> st.globals, ok |-> FALSE, result |-> ErrorStr("SyntaxError")]
       ELSE IF name \notin DOMAIN g1
       THEN [tools |-> st.tools, available_functions |-> st.available_functions,
             globals |-> g1, ok |-> FALSE, result |-> ErrorStr("KeyError")]
       ELSE IF r.raised # ""
       THEN [tools |-> r.tools, available_functions |-> r.available_functions,
             globals |-> g1, ok |-> FALSE, result |-> ErrorStr(r.raised)]
       ELSE [tools |-> r.tools, available_functions |-> r.available_functions,
             globals |-> g1, ok |-> TRUE,
             result |-> PyStr(<<"Tool '", name, "' created/updated successfully.">>)]

\* the three registrations at import time (lines 89-111)
EmptyRegistry == [tools |-> <<>>, available_functions |-> <<>>]
InitialRegistry ==
    LET r1 == register_tool(EmptyRegistry, "create_or_update_tool", "create_or_update_tool",
                  "Creates or updates a tool with the specified name, code, description, and parameters.",
                  Mapping({"name", "code", "description", "parameters"}))
        r2 == register_tool(r1, "install_package", "install_package",
                  "Installs a Python package using pip.", Mapping({"package_name"}))
    IN register_tool(r2, "task_completed", "task_completed",
                  "Marks the current task as completed.", Mapping({}))

\* the descriptors of `name` in a descriptor list, and the only one of them
DescriptorsOf(tls, name) == SelectSeq(tls, LAMBDA tool : tool.name = name)
DescriptorOf(tls, name) == DescriptorsOf(tls, name)[1]

\* module globals that a registration can resolve by name before any exec()
InitialGlobals == [n \in BuiltinNames |-> n]

\* --------------------------------------------------------------- dispatcher
\* tool_call.function.arguments: whether json.loads decodes it, the keyword
\* names it decodes to, and the values create_or_update_tool reads
Args(json_ok, kwargs, name, code, description, parameters) ==
    [json_ok |-> json_ok, kwargs |-> kwargs, name |-> name, code |-> code,
     description |-> description, parameters |-> parameters]
NoArgs == Args(TRUE, {}, "", cBad, "", Mapping({}))
Undecodable == Args(FALSE, {}, "", cBad, "", Mapping({}))
PackageArgs == Args(TRUE, {"package_name"}, "", cBad, "", Mapping({}))
ToolArgs(name, code, description, parameters) ==
    Args(TRUE, {"name", "code", "description", "parameters"},
         name, code, description, parameters)

\* the keyword names each pre-registered implementation accepts (all required)
Signature(func) ==
    CASE func = "create_or_update_tool" -> {"name", "code", "description", "parameters"}
      [] func = "install_package" -> {"package_name"}
      [] func = "task_completed" -> {}

\* results a synthesized tool can return: a string, a self-referencing
\* container (it can also raise)
SynthResults == {PyStr(<<"r">>), PyCyc}

\* one outcome of call_tool: the registry after it, the value returned,
\* the exception it lets escape ("" = none) and what the implementation did
Outcome(st, result, raised, impl) ==
    [tools |-> st.tools, available_functions |-> st.available_functions,
     globals |-> st.globals, result |-> result, raised |-> raised, impl |-> impl]

\* func(**args) of line 78: the behaviours of the implementation bound to
\* function_name, each a registry, a returned value and the exception raised
\* ("" = none).  A keyword mismatch with a pre-registered implementation is a
\* TypeError; install_package catches its own failure; a synthesized tool
\* returns any of SynthResults or raises.
Behaviours(st, function_name, args) ==
    LET func == st.available_functions[function_name]
    IN IF func \in BuiltinNames /\ args.kwargs # Signature(func)
       THEN {Outcome(st, PyNone, "TypeError", "raised")}
       ELSE CASE func = "create_or_update_tool" ->
                   LET r == create_or_update_tool(st, args.name, args.code,
                                                  args.description, args.parameters)
                   IN {Outcome(r, r.result, "", "returned")}
              [] func = "install_package" ->
                   {Outcome(st, PyStr(<<"Package '", "p", "' installed successfully.">>),
                            "", "returned"),
                    Outcome(st, PyStr(<<"Error installing package '", "p", "': ", "<e>">>),
                            "", "returned")}
              [] func = "task_completed" ->
                   {Outcome(st, PyStr(<<"Task marked as completed.">>), "", "returned")}
              [] OTHER ->
                   {Outcome(st, v, "", "returned") : v \in SynthResults}
                   \cup {Outcome(st, PyNone, "Exception", "raised")}

\* a slip: the try block of call_tool without its except branch
InvokeUncaught(st, function_name, args) == Behaviours(st, function_name, args)

\* lines 76-83: the try block of call_tool; an exception of the implementation
\* is answered with the string "Error executing '<name>': <e>"
Invoke(st, function_name, args) ==
    { IF b.raised # ""
      THEN Outcome(b, PyStr(<<"Error executing '", function_name, "': ", "<e>">>),
                   "", "raised")
      ELSE b : b \in Behaviours(st, function_name, args) }

\* a slip: available_functions[function_name] in place of .get(), so that a
\* missing name raises KeyError
call_tool_subscript(st, function_name, args) ==
    IF function_name \notin DOMAIN st.available_functions
    THEN {Outcome(st, PyNone, "KeyError", "absent")}
    ELSE Invoke(st, function_name, args)

\* call_tool(function_name, args) on st = [tools, available_functions, globals]:
\* the set of possible outcomes, one per behaviour of the implementation.
\* A missing name is answered with a string (lines 72-75).
call_tool(st, function_name, args) ==
    IF function_name \notin DOMAIN st.available_functions
    THEN {Outcome(st, PyStr(<<"Tool '", function_name, "' not found.">>), "", "absent")}
    ELSE Invoke(st, function_name, args)

\* --------------------------------------------------------------- agent loop
\* one transcript entry; fields a role does not use are empty
Message(role, content, tool_calls, name, tool_call_id) ==
    [role |-> role, content |-> content, tool_calls |-> tool_calls,
     name |-> name, tool_call_id |-> tool_call_id]
NoId == <<0, 0>>
SystemMessage == Message("system", <<"<system prompt>">>, <<>>, "", NoId)
\* a slip: the task text put into a second system message
UserMessageAsSystem == Message("system", <<"<user_input>">>, <<>>, "", NoId)
UserMessage == Message("user", <<"<user_input>">>, <<>>, "", NoId)

\* the tool calls a model response can carry: [name, arguments]
Call(name, arguments) == [name |-> name, arguments |-> arguments]
CallShapes ==
    { Call("task_completed", NoArgs),
      Call("install_package", PackageArgs),
      Call("install_package", NoArgs),
      Call("install_package", Undecodable),
      Call("ghost", NoArgs),
      Call("t1", NoArgs),
      Call("create_or_update_tool", ToolArgs("t1", c1, "d1", Mapping({"x"}))),
      Call("create_or_update_tool", ToolArgs("t1", c1, "d1", NotAMapping)) }

LogKinds == {"iteration", "llm", "completed", "error", "final"}
Log(buf, kind) == [buf EXCEPT ![kind] = @ + 1]
EmptyLog == [kd \in LogKinds |-> 0]

\* variables a specification does not use keep these values
RegistryInit ==
    /\ tools = InitialRegistry.tools
    /\ available_functions = InitialRegistry.available_functions
    /\ globals = InitialGlobals
LoopIdle ==
    /\ messages = <<SystemMessage, UserMessage>>
    /\ iteration = 0
    /\ output_buffer = EmptyLog
    /\ pc = "loop"
    /\ response_message = Message("", <<>>, <<>>, "", NoId)
    /\ k = 0
    /\ requests = 0
    /\ request_messages = <<>>
    /\ request_tools = <<>>
    /\ dispatched = {}
    /\ tool_outcome = ""
    /\ returned = [set |-> FALSE, log |-> EmptyLog]
RegIdle ==
    /\ last_call = [op |-> "", name |-> "", failed |-> FALSE, n |-> 0,
                    pre_tools |-> <<>>, pre_available |-> <<>>]
    /\ latest_reg = [n \in BuiltinNames |->
                       [func |-> n, descriptor |-> DescriptorOf(InitialRegistry.tools, n),
                        completed |-> TRUE, count |-> 1]]
SerPending == [done |-> FALSE, raised |-> "", out |-> <<>>]
SerIdle ==
    /\ ser_in = [tool_result |-> PyNone, max_length |-> MAX_TOOL_OUTPUT_LENGTH]
    /\ ser_out = SerPending

\* sandbox.py before main() runs.  The module never binds the name `uuid`
\* (lines 1-7), so as shipped the lookup at line 223 does not resolve.
NoResult == [returned |-> "no", result |-> "None"]
NoError == [phase |-> "", step |-> 0, why |-> ""]
SbStart ==
    /\ sb_pc = "main"
    /\ sb_step = 1
    /\ lifecycle = "NONE"
    /\ remove_attempts = 0
    /\ sb_result = NoResult
    /\ sb_error = NoError
SbIdle == SbStart /\ uuid_bound = FALSE

\* The settings both scripts read with os.getenv, which yields None for a
\* name that is not set (main.py lines 11-12 and 20, sandbox.py lines 213-214)
RequiredSettings == {"LITELLM_MODEL", "OPENAI_API_KEY", "DAYTONA_API_KEY", "DAYTONA_SERVER_URL"}
EnvIdle(script) == environ = RequiredSettings /\ program = script

\* run_main_loop is entered after the import-time registrations
Init == RegistryInit /\ LoopIdle /\ RegIdle /\ SerIdle /\ SbIdle /\ EnvIdle("main.py")

\* number of assistant messages in the transcript
Turns == Cardinality({i \in DOMAIN messages : messages[i].role = "assistant"})

\* number of tool calls carried by the transcript's assistant messages
RECURSIVE CallCount(_)
CallCount(msgs) ==
    IF msgs = <<>> THEN 0 ELSE Len(Head(msgs).tool_calls) + CallCount(Tail(msgs))

\* a slip: the bound compared with <= (one iteration too many)
LoopConditionInclusive == iteration <= max_iterations

\* line 160: the while condition
LoopCondition == iteration < max_iterations

\* the completion() call of line 163: its arguments are recorded
IssueRequest ==
    /\ pc = "loop"
    /\ LoopCondition
    /\ requests' = requests + 1
    /\ request_messages' = messages
    /\ request_tools' = tools

\* a slip: `iteration += 1` placed inside the try block, so that an
\* iteration that raises does not advance the index
HandleExceptionNoAdvance(buf) ==
    /\ output_buffer' = Log(buf, "error")
    /\ iteration' = iteration
    /\ pc' = "loop"

\* the except branch of lines 183-185 followed by lines 186-187
HandleException(buf) ==
    /\ output_buffer' = Log(buf, "error")
    /\ iteration' = iteration + 1
    /\ pc' = "loop"

\* lines 160-163, 183-187: the completion request raises
RequestRaises ==
    /\ IssueRequest
    /\ HandleException(Log(output_buffer, "iteration"))
    /\ UNCHANGED <<registry, messages, response_message, k, dispatched, tool_outcome,
                   returned, regvars, servars, sbvars, envvars>>

\* a slip: the assistant message appended only when it has text content
RequestReturnsSkipsEmpty ==
    /\ IssueRequest
    /\ Turns < MaxTurns
    /\ \E content \in {<<>>, <<"text">>}, n \in 0..(MaxCalls - CallCount(messages)) :
         \E shapes \in [1..n -> CallShapes] :
           LET calls == [i \in 1..n |-> [id |-> <<Turns + 1, i>>,
                                          name |-> shapes[i].name,
                                          arguments |-> shapes[i].arguments]]
               msg == Message("assistant", content, calls, "", NoId)
               buf == Log(output_buffer, "iteration")
           IN /\ response_message' = msg
              /\ output_buffer' = IF content # <<>> THEN Log(buf, "llm") ELSE buf
              /\ messages' = IF content # <<>> THEN Append(messages, msg) ELSE messages
              /\ IF n > 0
                 THEN /\ pc' = "dispatch"
                      /\ k' = 1
                      /\ UNCHANGED iteration
                 ELSE /\ pc' = "loop"
                      /\ k' = 0
                      /\ iteration' = iteration + 1
    /\ UNCHANGED <<registry, dispatched, tool_outcome, returned, regvars, servars, sbvars, envvars>>

\* lines 160-168: the completion request returns a message, which is logged
\* when it has content and appended; without tool calls the iteration ends
RequestReturns ==
    /\ IssueRequest
    /\ Turns < MaxTurns
    /\ \E content \in {<<>>, <<"text">>}, n \in 0..(MaxCalls - CallCount(messages)) :
         \E shapes \in [1..n -> CallShapes] :
           LET calls == [i \in 1..n |-> [id |-> <<Turns + 1, i>>,
                                          name |-> shapes[i].name,
                                          arguments |-> shapes[i].arguments]]
               msg == Message("assistant", content, calls, "", NoId)
               buf == Log(output_buffer, "iteration")
           IN /\ response_message' = msg
              /\ output_buffer' = IF content # <<>> THEN Log(buf, "llm") ELSE buf
              /\ messages' = Append(messages, msg)
              /\ IF n > 0
                 THEN /\ pc' = "dispatch"
                      /\ k' = 1
                      /\ UNCHANGED iteration
                 ELSE /\ pc' = "loop"
                      /\ k' = 0
                      /\ iteration' = iteration + 1
    /\ UNCHANGED <<registry, dispatched, tool_outcome, returned, regvars, servars, sbvars, envvars>>

\* lines 169-179 for the k-th tool call of the turn: decode the arguments,
\* dispatch, serialize, append the tool message.  An exception from json.loads,
\* call_tool or serialize_tool_result leaves the try block (lines 183-187).
DispatchCall ==
    /\ pc = "dispatch"
    /\ LET tool_call == response_message.tool_calls[k]
           function_name == tool_call.name
           st == [tools |-> tools, available_functions |-> available_functions,
                  globals |-> globals]
       IN IF ~tool_call.arguments.json_ok
          THEN /\ HandleException(output_buffer)
               /\ k' = 0
               /\ UNCHANGED <<registry, messages, dispatched, tool_outcome>>
          ELSE \E o \in call_tool(st, function_name, tool_call.arguments) :
                 LET ser == serialize_tool_result(o.result, MAX_TOOL_OUTPUT_LENGTH)
                 IN /\ tools' = o.tools
                    /\ available_functions' = o.available_functions
                    /\ globals' = o.globals
                    /\ dispatched' = dispatched \cup {tool_call.id}
                    /\ tool_outcome' = o.impl
                    /\ IF o.raised # "" \/ ser.raised # ""
                       THEN /\ HandleException(output_buffer)
                            /\ k' = 0
                            /\ UNCHANGED messages
                       ELSE /\ messages' = Append(messages,
                                   Message("tool", ser.out, <<>>, function_name, tool_call.id))
                            /\ IF k < Len(response_message.tool_calls)
                               THEN k' = k + 1 /\ pc' = "dispatch"
                               ELSE k' = 0 /\ pc' = "check"
                            /\ UNCHANGED <<iteration, output_buffer>>
    /\ UNCHANGED <<response_message, requests, request_messages, request_tools, returned,
                   regvars, servars, sbvars, envvars>>

\* a slip: the break on the sentinel taken without its log entry
CheckCompletedSilent ==
    /\ pc = "check"
    /\ IF \E i \in DOMAIN response_message.tool_calls :
              response_message.tool_calls[i].name = "task_completed"
       THEN /\ pc' = "exit"
            /\ UNCHANGED <<iteration, output_buffer>>
       ELSE /\ iteration' = iteration + 1
            /\ pc' = "loop"
            /\ UNCHANGED output_buffer
    /\ UNCHANGED <<registry, messages, response_message, k, requests, request_messages,
                   request_tools, dispatched, tool_outcome, returned, regvars, servars, sbvars, envvars>>

\* lines 180-182, 186-187: after the for loop, the sentinel test
CheckCompleted ==
    /\ pc = "check"
    /\ IF \E i \in DOMAIN response_message.tool_calls :
              response_message.tool_calls[i].name = "task_completed"
       THEN /\ output_buffer' = Log(output_buffer, "completed")
            /\ pc' = "exit"
            /\ UNCHANGED iteration
       ELSE /\ iteration' = iteration + 1
            /\ pc' = "loop"
            /\ UNCHANGED output_buffer
    /\ UNCHANGED <<registry, messages, response_message, k, requests, request_messages,
                   request_tools, dispatched, tool_outcome, returned, regvars, servars, sbvars, envvars>>

\* line 160: the while condition is false
LoopExit ==
    /\ pc = "loop"
    /\ ~LoopCondition
    /\ pc' = "exit"
    /\ UNCHANGED <<registry, messages, iteration, output_buffer, response_message, k,
                   requests, request_messages, request_tools, dispatched, tool_outcome,
                   returned, regvars, servars, sbvars, envvars>>

\* lines 188-199: the closing log entry, the file write (its failure is
\* caught and only printed) and the return of the joined log
Finish ==
    /\ pc = "exit"
    /\ output_buffer' = Log(output_buffer, "final")
    /\ returned' = [set |-> TRUE, log |-> output_buffer']
    /\ pc' = "done"
    /\ UNCHANGED <<registry, messages, iteration, response_message, k, requests,
                   request_messages, request_tools, dispatched, tool_outcome,
                   regvars, servars, sbvars, envvars>>

Next ==
    \/ RequestRaises
    \/ RequestReturns
    \/ DispatchCall
    \/ CheckCompleted
    \/ LoopExit
    \/ Finish

Spec == Init /\ [][Next]_vars

\* ------------------------------------------------- the registry on its own
\* register_tool and create_or_update_tool called in any order, as the
\* import-time code and the dispatcher call them.
\* direct registrations: (name, func, description, parameters), well-formed
Registrations ==
    { <<"t2", "f2", "d1", Mapping({"x"})>>,
      <<"t2", "f3", "d2", Mapping({})>>,
      <<"task_completed", "f2", "d2", Mapping({"x"})>> }
\* synthesis requests: (name, code, description, parameters)
Submissions ==
    { <<"t1", c1, "d1", Mapping({"x"})>>,
      <<"t1", c2, "d2", Mapping({})>>,
      <<"t1", cBad, "d2", Mapping({})>>,
      <<"t2", cOther, "d1", Mapping({"x"})>>,
      <<"t1", c1, "d1", NotAMapping>>,
      <<"task_completed", cOther, "d2", NotAMapping>> }

\* the record kept of a register_tool call for `name`
NoteRegistration(name, func, description, parameters, completed) ==
    DictSet(latest_reg, name,
            [func |-> func, descriptor |-> Descriptor(name, description, parameters),
             completed |-> completed,
             count |-> IF name \in DOMAIN latest_reg THEN latest_reg[name].count + 1 ELSE 1])

RegisterTool ==
    /\ last_call.n < MaxOps
    /\ \E a \in Registrations :
         LET r == register_tool([tools |-> tools,
                                 available_functions |-> available_functions],
                                a[1], a[2], a[3], a[4])
         IN /\ tools' = r.tools
            /\ available_functions' = r.available_functions
            /\ latest_reg' = NoteRegistration(a[1], a[2], a[3], a[4], r.raised = "")
            /\ last_call' = [op |-> "register_tool", name |-> a[1],
                             failed |-> r.raised # "", n |-> last_call.n + 1,
                             pre_tools |-> tools, pre_available |-> available_functions]
    /\ UNCHANGED <<globals, loopvars, servars, sbvars, envvars>>

CreateOrUpdateTool ==
    /\ last_call.n < MaxOps
    /\ \E a \in Submissions :
         LET st == [tools |-> tools, available_functions |-> available_functions,
                    globals |-> globals]
             r == create_or_update_tool(st, a[1], a[2], a[3], a[4])
             \* register_tool is reached once the text ran and the name resolved
             reached == a[2].ok /\ a[1] \in DOMAIN r.globals
         IN /\ tools' = r.tools
            /\ available_functions' = r.available_functions
            /\ globals' = r.globals
            /\ latest_reg' = IF reached
                             THEN NoteRegistration(a[1], r.globals[a[1]], a[3], a[4], r.ok)
                             ELSE latest_reg
            /\ last_call' = [op |-> "create_or_update_tool", name |-> a[1],
                             failed |-> ~r.ok, n |-> last_call.n + 1,
                             pre_tools |-> tools, pre_available |-> available_functions]
    /\ UNCHANGED <<loopvars, servars, sbvars, envvars>>

RegistryNext ==
    \/ RegisterTool
    \/ CreateOrUpdateTool

SpecRegistry == Init /\ [][RegistryNext]_vars

\* ---------------------------------------- serialize_tool_result on its own
\* strings of up to MaxLen characters, and two around the default limit
RECURSIVE Strings(_)
Strings(n) ==
    IF n = 0 THEN {<<>>}
    ELSE Strings(n - 1) \cup {Append(t, ch) : t \in Strings(n - 1), ch \in {"a", "b"}}
Repeat(ch, n) == [i \in 1..n |-> ch]
SerValues ==
    {PyStr(t) : t \in Strings(MaxLen)}
    \cup {PyStr(Repeat("a", MAX_TOOL_OUTPUT_LENGTH - 2)),
          PyStr(Repeat("a", MAX_TOOL_OUTPUT_LENGTH - 1))}
    \cup {PyNone, PyObj, PyCyc}
SerLimits == (0..(MaxLen + 3)) \cup {MAX_TOOL_OUTPUT_LENGTH}

SerInit ==
    /\ RegistryInit /\ LoopIdle /\ RegIdle /\ SbIdle /\ EnvIdle("main.py")
    /\ ser_in \in [tool_result : SerValues, max_length : SerLimits]
    /\ ser_out = SerPending

Serialize ==
    /\ ~ser_out.done
    /\ LET r == serialize_tool_result(ser_in.tool_result, ser_in.max_length)
       IN ser_out' = [done |-> TRUE, raised |-> r.raised, out |-> r.out]
    /\ UNCHANGED <<ser_in, registry, loopvars, regvars, sbvars, envvars>>

SpecSerialize == SerInit /\ [][Serialize]_vars

\* ------------------------------------------------------------ sandbox.py
\* The sandbox is an opaque collaborator: every remote operation either
\* raises, returns nothing useful ("empty") or succeeds ("ok"); local steps
\* (open a file, decode bytes) either raise or succeed.
\* need: a falsy result makes the helper raise RuntimeError.
Op(op, need) == [op |-> op, need |-> need]
OpOutcomes(o) == IF o.op \in {"exec", "download"} THEN {"raises", "empty", "ok"}
                 ELSE {"raises", "ok"}
OpFails(o, outcome) == outcome = "raises" \/ (outcome = "empty" /\ o.need)

files_to_copy == <<"main.py", "requirements.txt", "get-pip.py">>
additional_packages == <<"litellm", "python-dotenv", "requests", "anthropic", "openai">>

\* the operations each helper performs, in program order
PerFile == <<Op("open", FALSE), Op("upload", FALSE), Op("exec", TRUE)>>
CloneOps ==
    <<Op("exec", FALSE), Op("exec", FALSE)>>
    \o [i \in 1..(3 * Len(files_to_copy)) |-> PerFile[((i - 1) % 3) + 1]]
EnvOps == <<Op("upload", FALSE), Op("exec", TRUE)>>
PipOps == <<Op("exec", TRUE)>>
VenvOps == <<Op("exec", FALSE), Op("exec", FALSE)>>
DepsOps == <<Op("exec", TRUE)>> \o [i \in 1..Len(additional_packages) |-> Op("exec", TRUE)]
RunOps == <<Op("exec", FALSE), Op("download", TRUE), Op("decode", FALSE)>>

ResultNone == [returned |-> "None", result |-> "None"]
ResultDict(output) == [returned |-> "dict", result |-> output]

\* `except Exception` of setup_babyagi_workspace: log, return None
SetupReturnsNone(phase, step, why) ==
    /\ sb_error' = [phase |-> phase, step |-> step, why |-> why]
    /\ sb_result' = ResultNone
    /\ sb_pc' = "main_result"
    /\ sb_step' = 1

\* a slip: a helper whose failure is reported but not acted upon, so that
\* the next operation is started all the same
HelperGoesOn(name, ops, next) ==
    /\ sb_pc = name
    /\ \E outcome \in OpOutcomes(ops[sb_step]) :
          /\ IF sb_step < Len(ops)
             THEN sb_step' = sb_step + 1 /\ UNCHANGED sb_pc
             ELSE sb_step' = 1 /\ sb_pc' = next
          /\ IF OpFails(ops[sb_step], outcome)
             THEN sb_error' = [phase |-> name, step |-> sb_step, why |-> outcome]
             ELSE UNCHANGED sb_error
          /\ UNCHANGED sb_result
    /\ UNCHANGED <<uuid_bound, lifecycle, remove_attempts>>
    /\ UNCHANGED <<registry, loopvars, regvars, servars, envvars>>

\* One operation of a helper called by setup_babyagi_workspace.  A failure
\* inside the helper is caught there and reported by its return value (or
\* re-raised as RuntimeError); setup_babyagi_workspace turns that into an
\* exception of its own, which its handler turns into None.
Helper(name, ops, next) ==
    /\ sb_pc = name
    /\ \E outcome \in OpOutcomes(ops[sb_step]) :
          IF OpFails(ops[sb_step], outcome)
          THEN SetupReturnsNone(name, sb_step, outcome)
          ELSE /\ IF sb_step < Len(ops)
                  THEN sb_step' = sb_step + 1 /\ UNCHANGED sb_pc
                  ELSE sb_step' = 1 /\ sb_pc' = next
               /\ UNCHANGED <<sb_result, sb_error>>
    /\ UNCHANGED <<uuid_bound, lifecycle, remove_attempts>>
    /\ UNCHANGED <<registry, loopvars, regvars, servars, envvars>>

\* main(), up to the call of setup_babyagi_workspace
MainStart ==
    /\ sb_pc = "main"
    /\ \E outcome \in {"no .env", "raises", "ok"} :
          CASE outcome = "no .env" -> sb_pc' = "exit" /\ UNCHANGED sb_error
            [] outcome = "raises" ->
                 /\ sb_pc' = "exit"
                 /\ sb_error' = [phase |-> "Main Execution", step |-> 0, why |-> "raises"]
            [] outcome = "ok" -> sb_pc' = "Daytona" /\ UNCHANGED sb_error
    /\ UNCHANGED <<sb_step, uuid_bound, lifecycle, remove_attempts, sb_result>>
    /\ UNCHANGED <<registry, loopvars, regvars, servars, envvars>>

\* setup_babyagi_workspace: DaytonaConfig(...) and Daytona(config=config)
CreateClient ==
    /\ sb_pc = "Daytona"
    /\ \E outcome \in {"raises", "ok"} :
          IF outcome = "raises"
          THEN SetupReturnsNone("Daytona", 0, "raises")
          ELSE sb_pc' = "create" /\ UNCHANGED <<sb_step, sb_result, sb_error>>
    /\ UNCHANGED <<uuid_bound, lifecycle, remove_attempts>>
    /\ UNCHANGED <<registry, loopvars, regvars, servars, envvars>>

\* setup_babyagi_workspace: daytona_client.create(...).  The id argument is
\* evaluated first; an unbound `uuid` raises NameError before create is called.
\* The source has one way of creating the workspace, "Strategy 1"; the
\* failure records the number of strategies that were tried.
CreateWorkspace ==
    /\ sb_pc = "create"
    /\ IF ~uuid_bound
       THEN SetupReturnsNone("create", 1, "NameError") /\ UNCHANGED lifecycle
       ELSE \E outcome \in {"raises", "empty", "ok"} :
               IF outcome = "ok"
               THEN /\ lifecycle' = "CREATED"
                    /\ sb_pc' = "clone_repository_with_fallbacks"
                    /\ UNCHANGED <<sb_step, sb_result, sb_error>>
               ELSE SetupReturnsNone("create", 1, outcome) /\ UNCHANGED lifecycle
    /\ UNCHANGED <<uuid_bound, remove_attempts>>
    /\ UNCHANGED <<registry, loopvars, regvars, servars, envvars>>

clone_repository_with_fallbacks ==
    Helper("clone_repository_with_fallbacks", CloneOps, "setup_environment")
setup_environment == Helper("setup_environment", EnvOps, "install_pip")
install_pip == Helper("install_pip", PipOps, "setup_virtualenv")
setup_virtualenv == Helper("setup_virtualenv", VenvOps, "install_dependencies")
install_dependencies == Helper("install_dependencies", DepsOps, "run_babyagi")

\* run_babyagi reports a failure by returning None, and setup_babyagi_workspace
\* returns its dictionary either way
run_babyagi ==
    /\ sb_pc = "run_babyagi"
    /\ \E outcome \in OpOutcomes(RunOps[sb_step]) :
          IF OpFails(RunOps[sb_step], outcome)
          THEN /\ sb_error' = [phase |-> "run_babyagi", step |-> sb_step, why |-> outcome]
               /\ sb_result' = ResultDict("None")
               /\ sb_pc' = "main_result"
               /\ sb_step' = 1
          ELSE IF sb_step < Len(RunOps)
          THEN sb_step' = sb_step + 1 /\ UNCHANGED <<sb_pc, sb_result, sb_error>>
          ELSE /\ sb_result' = ResultDict("output")
               /\ sb_pc' = "main_result"
               /\ sb_step' = 1
               /\ UNCHANGED sb_error
    /\ UNCHANGED <<uuid_bound, lifecycle, remove_attempts>>
    /\ UNCHANGED <<registry, loopvars, regvars, servars, envvars>>

\* main(): `if result:` -- a non-empty dictionary is truthy, None is not
MainResult ==
    /\ sb_pc = "main_result"
    /\ sb_pc' = IF sb_result.returned = "dict" THEN "cleanup" ELSE "exit"
    /\ UNCHANGED <<sb_step, uuid_bound, lifecycle, remove_attempts, sb_result, sb_error>>
    /\ UNCHANGED <<registry, loopvars, regvars, servars, envvars>>

\* main(): the cleanup block, inside its own try/except
Cleanup ==
    /\ sb_pc = "cleanup"
    /\ \E outcome \in {"client raises", "remove raises", "removed"} :
          /\ remove_attempts' = IF outcome = "client raises" THEN remove_attempts
                                ELSE remove_attempts + 1
          /\ lifecycle' = IF outcome = "removed" THEN "REMOVED" ELSE lifecycle
          /\ sb_error' = IF outcome = "removed" THEN sb_error
                         ELSE [phase |-> "Cleanup", step |-> 0, why |-> outcome]
    /\ sb_pc' = "exit"
    /\ UNCHANGED <<sb_step, uuid_bound, sb_result>>
    /\ UNCHANGED <<registry, loopvars, regvars, servars, envvars>>

\* The namespace the module runs in is an input of the run: `uuid` resolves
\* only if the caller bound it there.
SbInit ==
    /\ RegistryInit /\ LoopIdle /\ RegIdle /\ SerIdle /\ EnvIdle("sandbox.py")
    /\ SbStart
    /\ uuid_bound \in BOOLEAN

SandboxNext ==
    \/ MainStart
    \/ CreateClient
    \/ CreateWorkspace
    \/ clone_repository_with_fallbacks
    \/ setup_environment
    \/ install_pip
    \/ setup_virtualenv
    \/ install_dependencies
    \/ run_babyagi
    \/ MainResult
    \/ Cleanup

SpecSandbox == SbInit /\ [][SandboxNext]_vars

\* ------------------------------------------------ either script, any settings
\* A run of main.py or of sandbox.py with all required settings present or
\* with one of them absent.  Neither script tests a setting before use: the
\* values go into completion(model=...) and DaytonaConfig(...) as they are.
Environments == {RequiredSettings} \cup {RequiredSettings \ {x} : x \in RequiredSettings}

StartupInit ==
    /\ RegistryInit /\ LoopIdle /\ RegIdle /\ SerIdle /\ SbStart
    /\ environ \in Environments
    /\ program \in {"main.py", "sandbox.py"}
    /\ uuid_bound \in (IF program = "sandbox.py" THEN BOOLEAN ELSE {FALSE})

StartupNext ==
    \/ program = "main.py" /\ Next
    \/ program = "sandbox.py" /\ SandboxNext

SpecStartup == StartupInit /\ [][StartupNext]_vars

\* ===================================================================== claims
\* the tool calls carried by the assistant messages of a transcript
CallsOf(msgs) ==
    UNION {{msgs[i].tool_calls[j] : j \in DOMAIN msgs[i].tool_calls} : i \in DOMAIN msgs}
\* the call ids answered by a tool message of a transcript
AnsweredIn(msgs) ==
    {msgs[i].tool_call_id : i \in {m \in DOMAIN msgs : msgs[m].role = "tool"}}

\* C1: whenever a completion request is issued, every tool call carried by an
\* assistant message of the transcript sent with it is answered in that
\* transcript by a tool message with the same tool_call_id.
C1_ToolCallsAnsweredAtRequest ==
    \A c \in CallsOf(request_messages) : c.id \in AnsweredIn(request_messages)

\* C2: no completion request is issued with a transcript that already holds a
\* turn naming task_completed (so a turn that names it is the last one, and
\* the request that produced it is the last request of the run).
C2_NoRequestAfterSentinelTurn ==
    \A c \in CallsOf(request_messages) : c.name # "task_completed"

\* C3: a run in which no completion request ever returned (all raised) leaves
\* the loop only after exactly 50 requests, 50 logged errors and index 50, and
\* then returns the log.
C3_AllRequestsRaise ==
    (pc \in {"exit", "done"} /\ Turns = 0) =>
        /\ requests = max_iterations
        /\ iteration = max_iterations
        /\ output_buffer["error"] = max_iterations
        /\ pc = "done" => (returned.set /\ returned.log = output_buffer)
C3_Witness == pc = "done" /\ Turns = 0 /\ requests = max_iterations /\ returned.set

\* C4: at most 50 completion requests are issued; the index counts the
\* iterations (one per request, raised or not; only the break on the sentinel
\* leaves the last one uncounted); and the run terminates: until it has
\* returned a step is always possible, and every step decreases C4_Variant.
C4_IndexCountsRequests ==
    CASE pc = "loop" -> requests = iteration
      [] pc \in {"dispatch", "check"} -> requests = iteration + 1
      [] OTHER -> requests = iteration + output_buffer["completed"]
C4_Rank ==
    CASE pc = "loop" -> MaxCalls + 3
      [] pc = "dispatch" -> Len(response_message.tool_calls) - k + 3
      [] pc = "check" -> 2
      [] pc = "exit" -> 1
      [] OTHER -> 0
C4_Variant == (max_iterations + 1 - iteration) * (MaxCalls + 4) + C4_Rank
C4_BoundedAndTerminating ==
    /\ [](/\ requests <= max_iterations
          /\ iteration <= max_iterations
          /\ C4_IndexCountsRequests
          /\ C4_Variant >= 0
          /\ pc # "done" => ENABLED Next)
    /\ [][C4_Variant' < C4_Variant]_vars
C4_Witness ==
    /\ pc = "done"
    /\ requests = max_iterations
    /\ Turns = MaxTurns
    /\ output_buffer["error"] > 0

\* C7: dispatching a name that is not in the registry returns the string
\* "Tool '<name>' not found.", changes nothing in the registry, raises nothing,
\* and the loop appends that string as the tool message of the call and goes
\* on with the next call of the turn.
C7_CurrentCall == response_message.tool_calls[k]
C7_UnknownToolStep ==
    (/\ pc = "dispatch"
     /\ C7_CurrentCall.arguments.json_ok
     /\ C7_CurrentCall.name \notin DOMAIN available_functions)
    => /\ UNCHANGED <<registry, iteration, output_buffer>>
       /\ messages' = Append(messages,
              Message("tool",
                      <<"\"", "Tool '", C7_CurrentCall.name, "' not found.", "\"">>,
                      <<>>, C7_CurrentCall.name, C7_CurrentCall.id))
       /\ \E t \in DOMAIN messages'[Len(messages')].content :
              messages'[Len(messages')].content[t] = C7_CurrentCall.name
       /\ IF k < Len(response_message.tool_calls)
          THEN pc' = "dispatch" /\ k' = k + 1
          ELSE pc' = "check"
C7_UnknownToolIsOrdinaryOutput == [][C7_UnknownToolStep]_vars
C7_Witness ==
    \E i \in 1..(Len(messages) - 1) :
        /\ messages[i].role = "tool"
        /\ messages[i].name = "ghost"
        /\ messages[i + 1].role = "tool"

\* C8: when the implementation of a registered tool raises, call_tool returns
\* "Error executing '<name>': <e>", the loop appends it as the tool message of
\* that call id, goes on with the remaining calls of the turn, and the
\* iteration is not abandoned.
C8_ToolRaisesStep ==
    (/\ pc = "dispatch"
     /\ C7_CurrentCall.id \in dispatched'
     /\ tool_outcome' = "raised")
    => /\ UNCHANGED <<registry, iteration, output_buffer>>
       /\ messages' = Append(messages,
              Message("tool",
                      <<"\"", "Error executing '", C7_CurrentCall.name, "': ", "<e>", "\"">>,
                      <<>>, C7_CurrentCall.name, C7_CurrentCall.id))
       /\ IF k < Len(response_message.tool_calls)
          THEN pc' = "dispatch" /\ k' = k + 1
          ELSE pc' = "check"
C8_ToolFailureIsOrdinaryOutput == [][C8_ToolRaisesStep]_vars
C8_Witness ==
    \E i \in 1..(Len(messages) - 1) :
        /\ messages[i].role = "tool"
        /\ messages[i].content[2] = "Error executing '"
        /\ messages[i + 1].role = "tool"
        /\ messages[i + 1].tool_call_id[1] = messages[i].tool_call_id[1]

\* C5: when create_or_update_tool returns a failure string, `tools` and
\* `available_functions` are what they were before the call.
C5_FailedSynthesisLeavesRegistry ==
    (last_call.op = "create_or_update_tool" /\ last_call.failed) =>
        /\ tools = last_call.pre_tools
        /\ available_functions = last_call.pre_available

\* C6: for every name whose latest register_tool call completed, the
\* descriptor list holds exactly one descriptor of that name, it is the one of
\* that call, and available_functions binds that call's implementation; and a
\* completed registration leaves the descriptors of the other names as they
\* were, in their order.
C6_LatestInEffect ==
    \A n \in DOMAIN latest_reg :
        latest_reg[n].completed =>
            /\ DescriptorsOf(tools, n) = <<latest_reg[n].descriptor>>
            /\ n \in DOMAIN available_functions
            /\ available_functions[n] = latest_reg[n].func
C6_OthersUntouched ==
    (last_call'.n # last_call.n /\ ~last_call'.failed) =>
        SelectSeq(tools', LAMBDA tool : tool.name # last_call'.name)
            = SelectSeq(tools, LAMBDA tool : tool.name # last_call'.name)
C6_ReRegistrationReplaces == []C6_LatestInEffect /\ [][C6_OthersUntouched]_vars
C6_Witness ==
    \E n \in DOMAIN latest_reg :
        /\ latest_reg[n].completed
        /\ latest_reg[n].count >= 2
        /\ Len(tools) >= 4
        /\ tools[Len(tools)].name = n

\* C9: serialize_tool_result never raises; with e the encoding of the value
\* (its JSON encoding, or its plain string conversion when JSON cannot encode
\* it), the result is e when Len(e) <= max_length, and otherwise the first
\* max_length characters of e followed by a note stating max_length and Len(e).
C9_Encoding(v) == IF json_dumps(v).raised = "" THEN json_dumps(v).out ELSE str(v)
C9_SerializeBoundedAndTotal ==
    ser_out.done =>
        LET e == C9_Encoding(ser_in.tool_result)
            m == ser_in.max_length
            note == SubSeq(ser_out.out, m + 1, Len(ser_out.out))
        IN /\ ser_out.raised = ""
           /\ Len(e) <= m => ser_out.out = e
           /\ Len(e) > m =>
                 /\ SubSeq(ser_out.out, 1, m) = SubSeq(e, 1, m)
                 /\ Len(ser_out.out) > m
                 /\ \E i \in DOMAIN note : note[i] = ToString(m)
                 /\ \E i \in DOMAIN note : note[i] = ToString(Len(e))

C12_CreationFailsOnlyAfterThreeStrategies ==
    (sb_result = ResultNone /\ sb_error.phase = "create") => sb_error.step = 3

C14_Needed ==
    IF program = "main.py" THEN {"LITELLM_MODEL", "OPENAI_API_KEY"}
    ELSE {"DAYTONA_API_KEY", "DAYTONA_SERVER_URL"}
C14_NoNetworkWithoutSettings ==
    ~(C14_Needed \subseteq environ) =>
        /\ requests = 0
        /\ lifecycle = "NONE"
        /\ ~(sb_error.phase = "create" /\ sb_error.why # "NameError")

\* C15: an iteration in which an exception is raised leaves the transcript as
\* it was when the iteration began (the transcript sent with its completion
\* request), and advances the index by one.
C15_ErrorStep ==
    output_buffer'["error"] > output_buffer["error"] =>
        /\ messages' = request_messages'
        /\ iteration' = iteration + 1
C15_FailedIterationIsNoOp == [][C15_ErrorStep]_vars

\* C16: while a turn is processed without an exception the transcript is the
\* one sent with the request, then the assistant message (with or without
\* text), then one tool message per call handled so far, in the order of the
\* calls, each with the call's id, name and serialized result; a call is
\* dispatched once, the calls after a task_completed call included, and the
\* sentinel ends the loop only after the last call of the turn.
C16_Handled == IF pc = "check" THEN Len(response_message.tool_calls) ELSE k - 1
C16_TurnTranscript ==
    pc \in {"dispatch", "check"} =>
        LET calls == response_message.tool_calls
            base == Len(request_messages)
        IN /\ Len(messages) = base + 1 + C16_Handled
           /\ SubSeq(messages, 1, base) = request_messages
           /\ messages[base + 1] = response_message
           /\ response_message.role = "assistant"
           /\ \A i \in 1..C16_Handled :
                 /\ messages[base + 1 + i].role = "tool"
                 /\ messages[base + 1 + i].tool_call_id = calls[i].id
                 /\ messages[base + 1 + i].name = calls[i].name
                 /\ calls[i].id \in dispatched
           /\ \A i \in (C16_Handled + 1)..Len(calls) : calls[i].id \notin dispatched
           /\ \A i, j \in DOMAIN calls : calls[i].id = calls[j].id => i = j
C16_Step ==
    /\ (pc = "dispatch" /\ messages' # messages) =>
          LET tool_call == response_message.tool_calls[k]
              st == [tools |-> tools, available_functions |-> available_functions,
                     globals |-> globals]
          IN /\ dispatched' = dispatched \cup {tool_call.id}
             /\ \E o \in call_tool(st, tool_call.name, tool_call.arguments) :
                   messages' = Append(messages,
                       Message("tool",
                               serialize_tool_result(o.result, MAX_TOOL_OUTPUT_LENGTH).out,
                               <<>>, tool_call.name, tool_call.id))
    /\ (pc = "loop" /\ pc' = "loop" /\ messages' # messages) =>
          /\ messages' = Append(messages, response_message')
          /\ response_message'.role = "assistant"
          /\ response_message'.tool_calls = <<>>
    /\ output_buffer'["completed"] > output_buffer["completed"] => pc = "check"
C16_TurnAppendsInOrder == []C16_TurnTranscript /\ [][C16_Step]_vars
C16_Witness ==
    /\ pc = "check"
    /\ Len(response_message.tool_calls) = 2
    /\ response_message.tool_calls[1].name = "task_completed"
    /\ response_message.content = <<>>
    /\ messages[Len(messages)].tool_call_id = response_message.tool_calls[2].id

\* C19: the descriptor list sent with a completion request is the current
\* one, and holds a descriptor for every tool whose creation or update the
\* transcript of that request reports as successful; such a tool is also
\* bound in available_functions for the calls that follow.
C19_Created(msgs) ==
    {msgs[i].content[3] : i \in {m \in DOMAIN msgs :
        /\ msgs[m].role = "tool"
        /\ Len(msgs[m].content) >= 4
        /\ msgs[m].content[2] = "Tool '"
        /\ msgs[m].content[4] = "' created/updated successfully."}}
C19_RequestCarriesCurrentTools ==
    /\ (pc = "dispatch" /\ k = 1) => request_tools = tools
    /\ \A n \in C19_Created(request_messages) : DescriptorsOf(request_tools, n) # <<>>
    /\ \A n \in C19_Created(messages) : n \in DOMAIN available_functions

\* C20: the transcript begins with exactly one system message and then one
\* user message holding the task text, and every step leaves the previous
\* transcript as a prefix of the new one.
C20_Begins ==
    /\ Len(messages) >= 2
    /\ messages[1].role = "system"
    /\ messages[2].role = "user"
    /\ messages[2].content = <<"<user_input>">>
    /\ \A i \in DOMAIN messages : messages[i].role \in {"system", "user"} => i <= 2
C20_Prefix ==
    /\ Len(messages') >= Len(messages)
    /\ SubSeq(messages', 1, Len(messages)) = messages
C20_TranscriptAppendOnly == []C20_Begins /\ [][C20_Prefix]_vars
C20_Witness ==
    /\ pc = "done"
    /\ Len(messages) = 2 + 1 + MaxCalls
    /\ output_buffer["error"] > 0

\* C17: the sandbox run moves through its phases in one order (create, stage
\* files, environment, pip, virtualenv, dependencies, execute and retrieve,
\* teardown): a phase starts only when the one before it has just succeeded,
\* retrieval follows execution, removal is attempted only in the cleanup that
\* follows a provisioner that got as far as executing, and once a phase has
\* failed no phase other than teardown starts.
C17_Phases ==
    <<"main", "Daytona", "create", "clone_repository_with_fallbacks", "setup_environment",
      "install_pip", "setup_virtualenv", "install_dependencies", "run_babyagi",
      "main_result", "cleanup", "exit">>
C17_Index(p) == CHOOSE i \in DOMAIN C17_Phases : C17_Phases[i] = p
C17_Step ==
    /\ sb_pc' # sb_pc => C17_Index(sb_pc') > C17_Index(sb_pc)
    /\ (sb_pc' # sb_pc /\ C17_Index(sb_pc') <= C17_Index("run_babyagi")) =>
          /\ C17_Index(sb_pc') = C17_Index(sb_pc) + 1
          /\ sb_error' = NoError
    /\ (sb_pc' = sb_pc /\ sb_step' # sb_step) =>
          (sb_step' = sb_step + 1 /\ sb_error' = NoError)
    /\ (sb_error' # sb_error /\ sb_pc # "cleanup") => sb_pc' \in {"main_result", "exit"}
    /\ sb_pc' = "cleanup" => sb_pc = "main_result"
    /\ (remove_attempts' # remove_attempts \/ lifecycle' = "REMOVED") =>
          (sb_pc = "cleanup" /\ sb_result.returned = "dict")
C17_State ==
    /\ C17_Index(sb_pc) \in (C17_Index("create") + 1)..C17_Index("run_babyagi") =>
          (lifecycle = "CREATED" /\ sb_error = NoError /\ sb_result = NoResult)
    /\ sb_pc = "cleanup" => (sb_result.returned = "dict" /\ lifecycle = "CREATED")
    /\ sb_result.result = "output" => sb_error = NoError \/ sb_error.phase = "Cleanup"
C17_CanonicalPhaseOrder == []C17_State /\ [][C17_Step]_vars
C17_Witness ==
    /\ sb_pc = "exit"
    /\ lifecycle = "REMOVED"
    /\ sb_result = ResultDict("output")
    /\ remove_attempts = 1

\* C18: a name that has a descriptor keeps having one, and a name bound in
\* available_functions stays bound, across every registry operation,
\* successful or failed.
C18_Step ==
    /\ \A i \in DOMAIN tools : DescriptorsOf(tools', tools[i].name) # <<>>
    /\ DOMAIN available_functions \subseteq DOMAIN available_functions'
C18_ToolsNeverDeleted == [][C18_Step]_vars

\* C21: the returned log holds the "Task completed." entry exactly when the
\* loop stopped on a turn that named task_completed (the turn was answered in
\* full and no request followed it), and never when the loop ran out of its 50
\* iterations; in both cases the function returns the log, closed by the same
\* final entry.
C21_StoppedBySentinel ==
    LET calls == response_message.tool_calls
    IN /\ \E i \in DOMAIN calls : calls[i].name = "task_completed"
       /\ \A i \in DOMAIN calls :
             /\ calls[i].id \in AnsweredIn(messages)
             /\ calls[i] \notin CallsOf(request_messages)
C21_LogTellsTermination ==
    pc = "done" =>
        /\ returned.set
        /\ returned.log = output_buffer
        /\ returned.log["final"] = 1
        /\ returned.log["completed"] \in {0, 1}
        /\ returned.log["completed"] = 1 <=> C21_StoppedBySentinel
        /\ iteration = max_iterations => returned.log["completed"] = 0
        /\ iteration < max_iterations => returned.log["completed"] = 1
C21_Witness ==
    /\ pc = "done"
    /\ returned.log["completed"] = 1
    /\ returned.log["error"] > 0
    /\ iteration < max_iterations

\* C22: the names that have a descriptor in `tools` are the keys of
\* available_functions, and no name has two descriptors.
C22_RegistryConsistent ==
    /\ {tools[i].name : i \in DOMAIN tools} = DOMAIN available_functions
    /\ \A i, j \in DOMAIN tools : tools[i].name = tools[j].name => i = j

\* C23: a sandbox run in which setup_babyagi_workspace was called and no
\* sandbox operation failed ends with the dictionary holding the captured
\* output and with exactly one removal of the workspace.
C23_HappyPath ==
    (/\ sb_pc = "exit"
     /\ sb_result.returned # "no"
     /\ sb_error.why \notin {"raises", "empty", "client raises", "remove raises"})
    => /\ sb_result = ResultDict("output")
       /\ remove_attempts = 1
       /\ lifecycle = "REMOVED"

====
